---- MODULE Spec2Model ----
(***************************************************************************)
(* Model of client/service/src/metrics.rs: the periodic metrics sampler    *)
(* (MetricsService), its Prometheus gauge set (PrometheusMetrics), the     *)
(* TCP connection classifier (connections_info) and the series reducer     *)
(* (impl From<Vec<u64>> for TimeSeriesInfo).                               *)
(*                                                                         *)
(* u64 values are modelled with WordBits bits instead of 64, so that the   *)
(* wrap-around of a 64-bit sum is within reach of the model checker.       *)
(***************************************************************************)
EXTENDS Integers, Sequences, FiniteSets, TLC

VARIABLES
    overflow_checks, \* build profile: TRUE = arithmetic overflow panics, FALSE = it wraps
    \* --- TimeSeriesInfo::from, called on its own
    input,           \* the Vec<u64> handed to TimeSeriesInfo::from
    result,          \* what the call produced
    rpc,             \* "off" | "call" | "returned" | "panicked"
    \* --- connections_info, called on its own
    table,           \* what iterate_sockets_info yields: [ok, sockets]
    cpid,            \* self.pid of the service asked
    conns,           \* Option<ConnectionsCount>
    cpc,             \* "off" | "call" | "returned"
    \* --- the service and its ticks
    unix,            \* cfg(unix) or cfg(not(unix))
    pid,             \* MetricsService.pid : Option<i32>
    svc,             \* "unbuilt" | "built" | "failed"
    metrics,         \* MetricsService.metrics : "None" | "Some"
    preregistered,   \* the registry as handed to with_prometheus
    registry,        \* names of the collectors the registry holds
    gauges,          \* <<metric, label>> -> value, for every gauge value ever set
    buffer,          \* GLOBAL_METRICS series: Seq of [key, value, id]
    pc,              \* position of the tick: "idle" | "sampled" | "flushed" | "panicked"
    os,              \* which operating-system queries of the current tick succeed
    process_info,    \* tick's local process_info
    sockets_info,    \* what iterate_sockets_info yielded in the current tick
    tick_conns,      \* tick's local conns: what connections_info returned
    args,            \* tick's arguments (info, txpool_status, net_status) and GLOBAL_METRICS.inner()
    series,          \* tick's local series (the drained entries)
    telemetry,       \* the telemetry events emitted so far
    appendLog,       \* history: every entry ever appended, with the number of drains before it
    drains,          \* history: the ids each flush_series call returned
    summaries,       \* history: per drain, key -> TimeSeriesInfo published by that tick
    ticks            \* number of tick() calls started

vars == <<overflow_checks, input, result, rpc, table, cpid, conns, cpc, unix, pid, svc,
          metrics, preregistered, registry, gauges, buffer, pc, os, process_info, sockets_info,
          tick_conns, args, series, telemetry, appendLog, drains, summaries, ticks>>

reducerVars == <<input, result, rpc>>
connVars == <<table, cpid, conns, cpc>>
serviceVars == <<unix, pid, svc, metrics, preregistered, registry, gauges, buffer, pc, os,
                 process_info, sockets_info, tick_conns, args, series, telemetry, appendLog,
                 drains, summaries, ticks>>

(***************************************************************************)
(* Bounds                                                                  *)
(***************************************************************************)
WordBits == 3
MaxLen == 5
MaxSockets == 2
MaxPreRegistered == 2
MaxAppends == 2
MaxTicks == 2

U64Mod == 2 ^ WordBits
U64Max == U64Mod - 1

None == [some |-> FALSE]
Some(v) == [some |-> TRUE, val |-> v]

SeqsUpTo(S, n) == UNION {[1..k -> S] : k \in 0..n}

(***************************************************************************)
(* impl From<Vec<u64>> for TimeSeriesInfo                                  *)
(***************************************************************************)
TimeSeriesInfo(count, lower_median, median, higher_median, average) ==
    [panic |-> "no", count |-> count, lower_median |-> lower_median, median |-> median,
     higher_median |-> higher_median, average |-> average]

Panicked(why) ==
    [panic |-> why, count |-> 0, lower_median |-> 0, median |-> 0,
     higher_median |-> 0, average |-> 0]

\* input.sort(): ascending, as an insertion sort
RECURSIVE InsertSorted(_, _)
InsertSorted(s, v) ==
    IF s = <<>> THEN <<v>>
    ELSE IF v <= Head(s) THEN <<v>> \o s
    ELSE <<Head(s)>> \o InsertSorted(Tail(s), v)

RECURSIVE SortAsc(_)
SortAsc(s) == IF s = <<>> THEN <<>> ELSE InsertSorted(SortAsc(Tail(s)), Head(s))

\* input.iter().fold(0u64, |acc, val| acc + val): the u64 sum and whether an addition overflowed
RECURSIVE FoldSum(_, _)
FoldSum(s, acc) ==
    IF s = <<>> THEN acc
    ELSE FoldSum(Tail(s), [sum |-> (acc.sum + Head(s)) % U64Mod,
                           overflowed |-> acc.overflowed \/ acc.sum + Head(s) > U64Max])

\* input[i] of a Vec, 0-indexed and bounds-checked
InBounds(v, i) == 0 <= i /\ i < Len(v)
At(v, i) == v[i + 1]

MedianPosLower(count) == (count - 1) \div 2
MedianPos(count) == count \div 2

MedianDifWide(median_pos) == median_pos
MedianDif(median_pos) == median_pos \div 2

From(in, checks) ==
    LET count == Len(in) IN
    IF count = 0 THEN TimeSeriesInfo(0, 0, 0, 0, 0)
    ELSE IF count = 1 THEN TimeSeriesInfo(1, in[1], in[1], in[1], in[1])
    ELSE
        LET sorted == SortAsc(in)
            median_pos == MedianPos(count)
            median_dif == MedianDif(median_pos)
            fold == FoldSum(sorted, [sum |-> 0, overflowed |-> FALSE])
        IN  IF fold.overflowed /\ checks THEN Panicked("overflow")
            ELSE IF ~ (InBounds(sorted, median_pos - median_dif)
                       /\ InBounds(sorted, median_pos)
                       /\ InBounds(sorted, median_pos + median_dif))
            THEN Panicked("index")
            ELSE TimeSeriesInfo(count,
                                At(sorted, median_pos - median_dif),
                                At(sorted, median_pos),
                                At(sorted, median_pos + median_dif),
                                fold.sum \div count)

\* the durations the model feeds the reducer
Durations == {0, 1, 2, U64Max - 1, U64Max}

NoResult == Panicked("none")

ReducerOff == input = <<>> /\ result = NoResult /\ rpc = "off"

CallFrom ==
    /\ rpc = "call"
    /\ result' = From(input, overflow_checks)
    /\ rpc' = IF result'.panic = "no" THEN "returned" ELSE "panicked"
    /\ UNCHANGED <<overflow_checks, input, connVars, serviceVars>>

(***************************************************************************)
(* MetricsService::connections_info                                       *)
(***************************************************************************)
TcpStates == {"Closed", "Listen", "SynSent", "SynReceived", "Established", "FinWait1",
              "FinWait2", "CloseWait", "Closing", "LastAck", "TimeWait", "DeleteTcb"}

ProcessIds == <<1001, 1002>>
OwnPid == ProcessIds[1]
OtherPid == ProcessIds[2]

ConnectionsCountDefault ==
    [listen |-> 0, established |-> 0, starting |-> 0, closing |-> 0, closed |-> 0, other |-> 0]

\* one item of the socket iterator: Err(_), or Ok(SocketInfo)
UnreadableSocket == [readable |-> FALSE, associated_pids |-> {}, proto |-> "tcp", state |-> "Closed"]
ReadableSockets ==
    [readable : {TRUE}, associated_pids : {{OtherPid}, {OwnPid, OtherPid}},
     proto : {"tcp"}, state : TcpStates]
    \cup [readable : {TRUE}, associated_pids : {{OwnPid}}, proto : {"udp"}, state : {"Closed"}]
SocketItems == {UnreadableSocket} \cup ReadableSockets

\* the filter_map closure: the TCP state of a readable socket of this process
SocketState(r, netstat_pid) ==
    IF ~ r.readable THEN None
    ELSE IF netstat_pid \in r.associated_pids
         THEN IF r.proto = "tcp" THEN Some(r.state) ELSE None
         ELSE None

\* the bucket the match arm of the fold increments
BucketNoSynReceived(socket_state) ==
    CASE socket_state = "Listen" -> "listen"
      [] socket_state = "Established" -> "established"
      [] socket_state = "Closed" -> "closed"
      [] socket_state = "SynSent" -> "starting"
      [] socket_state \in {"FinWait1", "FinWait2", "CloseWait", "Closing", "LastAck"} -> "closing"
      [] OTHER -> "other"

Bucket(socket_state) ==
    CASE socket_state = "Listen" -> "listen"
      [] socket_state = "Established" -> "established"
      [] socket_state = "Closed" -> "closed"
      [] socket_state \in {"SynSent", "SynReceived"} -> "starting"
      [] socket_state \in {"FinWait1", "FinWait2", "CloseWait", "Closing", "LastAck"} -> "closing"
      [] OTHER -> "other"

RECURSIVE FoldSockets(_, _, _)
FoldSockets(items, netstat_pid, counter) ==
    IF items = <<>> THEN counter
    ELSE LET st == SocketState(Head(items), netstat_pid)
             b == Bucket(st.val)
         IN  FoldSockets(Tail(items), netstat_pid,
                         IF st.some THEN [counter EXCEPT ![b] = (@ + 1) % U64Mod] ELSE counter)

ConnectionsInfo(self_pid, iter) ==
    IF ~ self_pid.some THEN None
    ELSE IF ~ iter.ok THEN None
    ELSE Some(FoldSockets(iter.sockets, self_pid.val, ConnectionsCountDefault))

NoSockets == [ok |-> FALSE, sockets |-> <<>>]

ConnOff == table = [ok |-> FALSE, sockets |-> <<>>] /\ cpid = None /\ conns = None /\ cpc = "off"

CallConnectionsInfo ==
    /\ cpc = "call"
    /\ conns' = ConnectionsInfo(cpid, table)
    /\ cpc' = "returned"
    /\ UNCHANGED <<overflow_checks, table, cpid, reducerVars, serviceVars>>

(***************************************************************************)
(* PrometheusMetrics::setup and the constructors                           *)
(***************************************************************************)
\* the collectors setup registers, in the order it registers them
SetupOrder ==
    <<"build_info", "node_roles", "load_avg", "memory_usage_bytes", "cpu_usage_percentage",
      "netstat_tcp", "threads", "open_file_handles", "block_height_number",
      "ready_transactions_number", "block_import", "network_per_sec_bytes",
      "database_cache_bytes", "state_cache_bytes", "state_db_cache_bytes", "tokio",
      "internals", "internals_unbounded_channels">>

MetricNames == {SetupOrder[i] : i \in DOMAIN SetupOrder}

\* prometheus_endpoint::register: adds the collector, or fails when the name is taken
Register(reg, name) ==
    IF name \in reg THEN [ok |-> FALSE, registry |-> reg]
    ELSE [ok |-> TRUE, registry |-> reg \cup {name}]

\* a gauge write: later writes of the same <<metric, label>> replace earlier ones
Write(g, upd) == upd @@ g

NoGauges == <<>>

\* register(..)? for the collectors from position i on; stops at the first failure
RECURSIVE RegisterFrom(_, _, _, _)
RegisterFrom(i, reg, g, roles) ==
    IF i > Len(SetupOrder) THEN [ok |-> TRUE, registry |-> reg, gauges |-> g]
    ELSE LET r == Register(reg, SetupOrder[i])
             g1 == IF SetupOrder[i] = "build_info" THEN Write(g, <<"build_info", "">> :> 1)
                   ELSE IF SetupOrder[i] = "node_roles"
                        THEN Write(g, <<"node_roles", "">> :> roles)
                        ELSE g
         IN  IF ~ r.ok THEN [ok |-> FALSE, registry |-> r.registry, gauges |-> g]
             ELSE RegisterFrom(i + 1, r.registry, g1, roles)

Setup(reg, roles) == RegisterFrom(1, reg, NoGauges, roles)

\* the registries with_prometheus may be handed: some of the names already taken
PreRegistries == {r \in SUBSET MetricNames : Cardinality(r) <= MaxPreRegistered}
Roles == {4}

\* inner_new: the pid the platform reports
InnerNewPids(is_unix) == IF is_unix THEN {Some(OwnPid)} ELSE {Some(OwnPid), None}

WithPrometheus ==
    /\ svc = "unbuilt"
    /\ \E pre \in PreRegistries, roles \in Roles :
          LET p == Setup(pre, roles) IN
          /\ preregistered' = pre
          /\ registry' = p.registry
          /\ gauges' = p.gauges
          /\ IF p.ok
             THEN /\ svc' = "built"
                  /\ metrics' = "Some"
                  /\ pid' \in InnerNewPids(unix)
             ELSE /\ svc' = "failed"
                  /\ UNCHANGED <<metrics, pid>>
    /\ UNCHANGED <<overflow_checks, unix, buffer, pc, os, process_info, sockets_info, tick_conns,
                   args, series, telemetry, appendLog, drains, summaries, ticks, reducerVars,
                   connVars>>

New ==
    /\ svc = "unbuilt"
    /\ svc' = "built"
    /\ metrics' = "None"
    /\ pid' \in InnerNewPids(unix)
    /\ UNCHANGED <<overflow_checks, unix, preregistered, registry, gauges, buffer, pc, os,
                   process_info, sockets_info, tick_conns, args, series, telemetry, appendLog,
                   drains, summaries, ticks, reducerVars, connVars>>

(***************************************************************************)
(* MetricsService::process_info and _process_info_for                      *)
(***************************************************************************)
FdCounterDefault ==
    [paths |-> 0, sockets |-> 0, net |-> 0, pipes |-> 0, anon_inode |-> 0, mem |-> 0, other |-> 0]

ProcessInfoDefault == [cpu_usage |-> 0, memory |-> 0, threads |-> None, open_fd |-> None]

\* what the operating system reports for the process when a query succeeds
OsProcess == [cpu_usage |-> 3, memory |-> 5, num_threads |-> 2,
              fd |-> <<"Path", "Socket", "Socket", "Net", "Pipe", "AnonInode", "MemFD", "Other">>]

\* the queries process_info issues: procfs is asked under cfg(unix) only, and without a pid
\* nothing is asked
OsQueries == {"refresh_process", "process_new", "stat", "fd"}
QueriesIssued(is_unix, self_pid) ==
    IF is_unix THEN OsQueries
    ELSE IF self_pid.some THEN {"refresh_process"} ELSE {}

\* which of the queries of one tick succeed: all, all but one, or none
OsOutcomes(issued) ==
    {[q \in OsQueries |-> q \notin failed] : failed \in {{}, issued} \cup {{q} : q \in issued}}

NoOutcome == [q \in OsQueries |-> TRUE]

ProcessInfoFor(o) ==
    IF o.refresh_process
    THEN [ProcessInfoDefault EXCEPT !.cpu_usage = OsProcess.cpu_usage,
                                    !.memory = OsProcess.memory]
    ELSE ProcessInfoDefault

FdField(target) ==
    CASE target = "Path" -> "paths"
      [] target = "Socket" -> "sockets"
      [] target = "Net" -> "net"
      [] target = "Pipe" -> "pipes"
      [] target = "AnonInode" -> "anon_inode"
      [] target = "MemFD" -> "mem"
      [] target = "Other" -> "other"

RECURSIVE FoldFd(_, _)
FoldFd(fds, f) ==
    IF fds = <<>> THEN f
    ELSE FoldFd(Tail(fds), [f EXCEPT ![FdField(Head(fds))] = (@ + 1) % U64Mod])

\* cfg(unix): panics when the pid is unknown or procfs cannot open the process
ProcessInfoUnix(self_pid, o) ==
    IF ~ self_pid.some THEN [panic |-> TRUE, info |-> ProcessInfoDefault]
    ELSE IF ~ o.process_new THEN [panic |-> TRUE, info |-> ProcessInfoDefault]
    ELSE [panic |-> FALSE,
          info |-> [ProcessInfoFor(o) EXCEPT
                      !.threads = IF o.stat THEN Some(OsProcess.num_threads) ELSE None,
                      !.open_fd = IF o.fd THEN Some(FoldFd(OsProcess.fd, FdCounterDefault))
                                  ELSE None]]

\* cfg(not(unix))
ProcessInfoOther(self_pid, o) ==
    [panic |-> FALSE, info |-> IF self_pid.some THEN ProcessInfoFor(o) ELSE ProcessInfoDefault]

ProcessInfo(is_unix, self_pid, o) ==
    IF is_unix THEN ProcessInfoUnix(self_pid, o) ELSE ProcessInfoOther(self_pid, o)

(***************************************************************************)
(* MetricsService::tick                                                    *)
(***************************************************************************)
\* saturated_into::<u64>() / unique_saturated_into()
SaturatedInto(n) == IF n > U64Max THEN U64Max ELSE n

UsageInfo ==
    [state_cache |-> 2, database_cache |-> 3, non_canonical |-> 1, pruning |-> Some(1),
     pinned |-> 2, bytes_read |-> 4, bytes_written |-> 5]

\* the arguments of a tick (info, txpool_status, net_status), the load average and the
\* counters GLOBAL_METRICS.inner() holds at that time; the caller's snapshots alternate
TickArgs ==
    << [best_number |-> 6, finalized_number |-> 4, best_hash |-> "h6", finalized_hash |-> "h4",
        usage |-> None, ready |-> 1, num_connected_peers |-> 2,
        average_download_per_sec |-> 3, average_upload_per_sec |-> 1, best_seen_block |-> None,
        load |-> [one |-> 1, five |-> 2, fifteen |-> 3],
        counters |-> ("tokio_threads" :> 2) @@ ("mpsc_network" :> 1) @@ ("peers" :> 3)],
       [best_number |-> U64Max + 2, finalized_number |-> 5, best_hash |-> "h9",
        finalized_hash |-> "h5", usage |-> Some(UsageInfo), ready |-> 0,
        num_connected_peers |-> 1, average_download_per_sec |-> 2,
        average_upload_per_sec |-> 2, best_seen_block |-> Some(U64Max + 3),
        load |-> [one |-> 3, five |-> 2, fifteen |-> 1],
        counters |-> ("tokio_threads" :> 1) @@ ("sync" :> 2)] >>

ArgsOfTick(n) == TickArgs[((n - 1) % Len(TickArgs)) + 1]

NoArgs == TickArgs[1]

\* the names a counter key can carry after its prefix
CounterNames == {"threads", "network", "peers", "sync"}
StartsWith(key, prefix) == \E n \in CounterNames : key = prefix \o n
StripPrefix(key, prefix) == CHOOSE n \in CounterNames : key = prefix \o n

\* the telemetry!(SUBSTRATE_INFO; "system.interval"; ..) event
TelemetryEvent(a, info) ==
    [peers |-> a.num_connected_peers,
     height |-> SaturatedInto(a.best_number),
     best |-> a.best_hash,
     txcount |-> a.ready,
     cpu |-> info.cpu_usage,
     memory |-> info.memory,
     finalized_height |-> SaturatedInto(a.finalized_number),
     finalized_hash |-> a.finalized_hash,
     bandwidth_download |-> a.average_download_per_sec,
     bandwidth_upload |-> a.average_upload_per_sec,
     used_state_cache_size |-> IF a.usage.some THEN a.usage.val.state_cache ELSE 0,
     used_db_cache_size |-> IF a.usage.some THEN a.usage.val.database_cache ELSE 0,
     disk_read_per_sec |-> IF a.usage.some THEN a.usage.val.bytes_read ELSE 0,
     disk_write_per_sec |-> IF a.usage.some THEN a.usage.val.bytes_written ELSE 0]

\* the keys and durations the producers record
SeriesKeys == {"block_imports", "sync"}
TickDurations == {1, U64Max}

\* a producer appends one (key, duration) entry to the GLOBAL_METRICS series
Record ==
    /\ Len(appendLog) < MaxAppends
    /\ \E key \in SeriesKeys, value \in TickDurations :
          /\ buffer' = Append(buffer, [key |-> key, value |-> value, id |-> Len(appendLog) + 1])
          /\ appendLog' = Append(appendLog, [key |-> key, value |-> value, epoch |-> Len(drains)])
    /\ UNCHANGED <<overflow_checks, unix, pid, svc, metrics, preregistered, registry, gauges, pc,
                   os, process_info, sockets_info, tick_conns, args, series, telemetry, drains,
                   summaries, ticks, reducerVars, connVars>>

\* tick, up to and including the telemetry event
TickSample ==
    /\ svc = "built"
    /\ pc = "idle"
    /\ ticks < MaxTicks
    /\ ticks' = ticks + 1
    /\ \E outcome \in OsOutcomes(QueriesIssued(unix, pid)) :
          LET p == ProcessInfo(unix, pid, outcome)
              a == ArgsOfTick(ticks')
          IN  /\ os' = outcome
              /\ IF p.panic
                 THEN /\ pc' = "panicked"
                      /\ UNCHANGED <<process_info, args, telemetry>>
                 ELSE /\ pc' = "sampled"
                      /\ process_info' = p.info
                      /\ args' = a
                      /\ telemetry' = Append(telemetry, TelemetryEvent(a, p.info))
    /\ UNCHANGED <<overflow_checks, unix, pid, svc, metrics, preregistered, registry, gauges,
                   buffer, sockets_info, tick_conns, series, appendLog, drains, summaries,
                   reducerVars, connVars>>

\* GLOBAL_METRICS.flush_series(): returns the entries and leaves the buffer empty, atomically
FlushSeries(buf) == [returned |-> buf, left |-> <<>>]

Ids(entries) == [i \in DOMAIN entries |-> entries[i].id]

NoSummaries == <<>>

FlushKeepsEntries ==
    /\ pc = "sampled"
    /\ series' = buffer
    /\ drains' = Append(drains, Ids(buffer))
    /\ summaries' = Append(summaries, NoSummaries)
    /\ pc' = "flushed"
    /\ UNCHANGED <<overflow_checks, unix, pid, svc, metrics, preregistered, registry, gauges,
                   buffer, os, process_info, sockets_info, tick_conns, args, telemetry,
                   appendLog, ticks, reducerVars, connVars>>

\* tick: let series = GLOBAL_METRICS.flush_series(), whether there is a sink or not
TickFlush ==
    /\ pc = "sampled"
    /\ series' = FlushSeries(buffer).returned
    /\ buffer' = FlushSeries(buffer).left
    /\ drains' = Append(drains, Ids(buffer))
    /\ summaries' = Append(summaries, NoSummaries)
    /\ pc' = "flushed"
    /\ UNCHANGED <<overflow_checks, unix, pid, svc, metrics, preregistered, registry, gauges,
                   os, process_info, sockets_info, tick_conns, args, telemetry, appendLog, ticks,
                   reducerVars, connVars>>

\* what iterate_sockets_info yields in a tick; it fails only in a tick whose other queries
\* all succeeded
SocketTables ==
    { [ok |-> FALSE, sockets |-> <<>>],
      [ok |-> TRUE,
       sockets |-> << [readable |-> TRUE, associated_pids |-> {OwnPid}, proto |-> "tcp",
                       state |-> "Listen"],
                      UnreadableSocket,
                      [readable |-> TRUE, associated_pids |-> {OwnPid, OtherPid},
                       proto |-> "tcp", state |-> "TimeWait"],
                      [readable |-> TRUE, associated_pids |-> {OtherPid}, proto |-> "tcp",
                       state |-> "Established"] >>] }

\* lines 388-403: the gauges of the process sample
ProcessGauges(info) ==
    (IF info.open_fd.some
     THEN (<<"open_file_handles", "paths">> :> info.open_fd.val.paths)
          @@ (<<"open_file_handles", "mem">> :> info.open_fd.val.mem)
          @@ (<<"open_file_handles", "sockets">> :> info.open_fd.val.sockets)
          @@ (<<"open_file_handles", "net">> :> info.open_fd.val.net)
          @@ (<<"open_file_handles", "pipe">> :> info.open_fd.val.pipes)
          @@ (<<"open_file_handles", "anon_inode">> :> info.open_fd.val.anon_inode)
          @@ (<<"open_file_handles", "other">> :> info.open_fd.val.other)
     ELSE NoGauges)
    @@ (IF info.threads.some THEN <<"threads", "">> :> info.threads.val ELSE NoGauges)
    @@ (<<"cpu_usage_percentage", "">> :> info.cpu_usage)
    @@ (<<"memory_usage_bytes", "">> :> info.memory)

\* lines 405-431: the gauges of the load average and of the tick's arguments
ArgGauges(a) ==
    (IF a.usage.some
     THEN (<<"database_cache_bytes", "">> :> a.usage.val.database_cache)
          @@ (<<"state_cache_bytes", "">> :> a.usage.val.state_cache)
          @@ (<<"state_db_cache_bytes", "non_canonical">> :> a.usage.val.non_canonical)
          @@ (IF a.usage.val.pruning.some
              THEN <<"state_db_cache_bytes", "pruning">> :> a.usage.val.pruning.val
              ELSE NoGauges)
          @@ (<<"state_db_cache_bytes", "pinned">> :> a.usage.val.pinned)
     ELSE NoGauges)
    @@ (IF a.best_seen_block.some
        THEN <<"block_height_number", "sync_target">> :> SaturatedInto(a.best_seen_block.val)
        ELSE NoGauges)
    @@ (<<"load_avg", "1min">> :> a.load.one)
    @@ (<<"load_avg", "5min">> :> a.load.five)
    @@ (<<"load_avg", "15min">> :> a.load.fifteen)
    @@ (<<"network_per_sec_bytes", "download">> :> a.average_download_per_sec)
    @@ (<<"network_per_sec_bytes", "upload">> :> a.average_upload_per_sec)
    @@ (<<"block_height_number", "finalized">> :> SaturatedInto(a.finalized_number))
    @@ (<<"block_height_number", "best">> :> SaturatedInto(a.best_number))
    @@ (<<"ready_transactions_number", "">> :> a.ready)

\* lines 433-440
NetstatGauges(c) ==
    IF c.some
    THEN [k \in {<<"netstat_tcp", l>> : l \in DOMAIN ConnectionsCountDefault} |-> c.val[k[2]]]
    ELSE NoGauges

\* lines 442-450: the low-level counters, by prefix
CounterGauge(key) ==
    IF StartsWith(key, "tokio_") THEN <<"tokio", StripPrefix(key, "tokio_")>>
    ELSE IF StartsWith(key, "mpsc_")
         THEN <<"internals_unbounded_channels", StripPrefix(key, "mpsc_")>>
         ELSE <<"internals", key>>

CounterGauges(counters) ==
    [g \in {CounterGauge(key) : key \in DOMAIN counters} |->
        counters[CHOOSE key \in DOMAIN counters : CounterGauge(key) = g]]

\* lines 452-461: the drained entries of one key, in arrival order
RECURSIVE ValuesLastOnly(_, _)
ValuesLastOnly(entries, key) ==
    IF entries = <<>> THEN <<>>
    ELSE IF entries[Len(entries)].key = key THEN <<entries[Len(entries)].value>>
    ELSE ValuesLastOnly(SubSeq(entries, 1, Len(entries) - 1), key)

RECURSIVE Values(_, _)
Values(entries, key) ==
    IF entries = <<>> THEN <<>>
    ELSE IF Head(entries).key = key
         THEN <<Head(entries).value>> \o Values(Tail(entries), key)
         ELSE Values(Tail(entries), key)

KeysOf(entries) == {entries[i].key : i \in DOMAIN entries}

\* lines 463-470
BlockImportGauges(info) ==
    (<<"block_import", "count">> :> info.count)
    @@ (<<"block_import", "time_average">> :> info.average)
    @@ (<<"block_import", "time_median">> :> info.median)
    @@ (<<"block_import", "time_lower_median">> :> info.lower_median)
    @@ (<<"block_import", "time_higher_median">> :> info.higher_median)

\* lines 472-479
SeriesGauges(key, info) ==
    (<<"internals", key \o "_count">> :> info.count)
    @@ (<<"internals", key \o "_average">> :> info.average)
    @@ (<<"internals", key \o "_median">> :> info.median)
    @@ (<<"internals", key \o "_lower_media">> :> info.lower_median)
    @@ (<<"internals", key \o "_higher_median">> :> info.higher_median)

RECURSIVE AllSeriesGauges(_, _)
AllSeriesGauges(keys, infos) ==
    IF keys = {} THEN NoGauges
    ELSE LET k == CHOOSE x \in keys : TRUE
         IN  SeriesGauges(k, infos[k]) @@ AllSeriesGauges(keys \ {k}, infos)

\* tick, from `if let Some(metrics)` to its end
TickPublish ==
    /\ pc = "flushed"
    /\ series' = <<>>
    /\ IF metrics = "None"
       THEN /\ pc' = "idle"
            /\ UNCHANGED <<gauges, summaries, sockets_info, tick_conns>>
       ELSE \E table_seen \in {t \in SocketTables : t.ok \/ os = NoOutcome} :
              LET infos == [k \in KeysOf(series) |-> From(Values(series, k), overflow_checks)]
                  base == CounterGauges(args.counters)
                          @@ NetstatGauges(ConnectionsInfo(pid, table_seen))
                          @@ ArgGauges(args)
                          @@ ProcessGauges(process_info)
                  imports == "block_imports" \in KeysOf(series)
                  others == KeysOf(series) \ {"block_imports"}
                  failing == {k \in others : infos[k].panic # "no"}
                  import_gauges == IF imports THEN BlockImportGauges(infos["block_imports"])
                                   ELSE NoGauges
              IN  /\ sockets_info' = table_seen
                  /\ tick_conns' = ConnectionsInfo(pid, table_seen)
                  /\ IF imports /\ infos["block_imports"].panic # "no"
                     THEN /\ pc' = "panicked"
                          /\ gauges' = Write(gauges, base)
                          /\ UNCHANGED summaries
                     ELSE \E written \in SUBSET others :
                            /\ IF failing = {} THEN written = others
                               ELSE written \subseteq others \ failing
                            /\ pc' = IF failing = {} THEN "idle" ELSE "panicked"
                            /\ gauges' = Write(gauges, AllSeriesGauges(written, infos)
                                                       @@ import_gauges @@ base)
                            /\ summaries' =
                                  [summaries EXCEPT ![Len(summaries)] =
                                     [k \in written
                                            \cup (IF imports THEN {"block_imports"} ELSE {})
                                        |-> infos[k]]]
    /\ UNCHANGED <<overflow_checks, unix, pid, svc, metrics, preregistered, registry, buffer,
                   os, process_info, args, telemetry, appendLog, drains, ticks, reducerVars,
                   connVars>>

(***************************************************************************)
(* Specifications                                                          *)
(***************************************************************************)
ServiceOff ==
    /\ unix = TRUE /\ pid = None /\ svc = "off" /\ metrics = "None"
    /\ preregistered = {} /\ registry = {} /\ gauges = NoGauges /\ buffer = <<>>
    /\ pc = "idle" /\ os = NoOutcome /\ process_info = ProcessInfoDefault
    /\ sockets_info = NoSockets /\ tick_conns = None /\ args = NoArgs /\ series = <<>>
    /\ telemetry = <<>> /\ appendLog = <<>> /\ drains = <<>> /\ summaries = <<>> /\ ticks = 0

\* the service before its construction, with producers and a serial caller of tick
Init ==
    /\ overflow_checks \in BOOLEAN
    /\ unix \in BOOLEAN
    /\ pid = None /\ svc = "unbuilt" /\ metrics = "None"
    /\ preregistered = {} /\ registry = {} /\ gauges = NoGauges /\ buffer = <<>>
    /\ pc = "idle" /\ os = NoOutcome /\ process_info = ProcessInfoDefault
    /\ sockets_info = NoSockets /\ tick_conns = None /\ args = NoArgs /\ series = <<>>
    /\ telemetry = <<>> /\ appendLog = <<>> /\ drains = <<>> /\ summaries = <<>> /\ ticks = 0
    /\ ReducerOff
    /\ ConnOff

Next == WithPrometheus \/ New \/ Record \/ TickSample \/ TickFlush \/ TickPublish

Spec == Init /\ [][Next]_vars

\* TimeSeriesInfo::from on every input up to MaxLen samples, in both build profiles
InitReduce ==
    /\ overflow_checks \in BOOLEAN
    /\ input \in SeqsUpTo(Durations, MaxLen)
    /\ result = NoResult
    /\ rpc = "call"
    /\ ConnOff
    /\ ServiceOff

NextReduce == CallFrom

SpecReduce == InitReduce /\ [][NextReduce]_vars

\* connections_info on every socket table up to MaxSockets entries
InitConn ==
    /\ overflow_checks = FALSE
    /\ table \in [ok : BOOLEAN, sockets : SeqsUpTo(SocketItems, MaxSockets)]
    /\ cpid \in {None, Some(OwnPid)}
    /\ conns = None
    /\ cpc = "call"
    /\ ReducerOff
    /\ ServiceOff

NextConn == CallConnectionsInfo

SpecConn == InitConn /\ [][NextConn]_vars

(***************************************************************************)
(* Properties of TimeSeriesInfo::from (checked under SpecReduce)           *)
(***************************************************************************)
\* v is the sample at 0-indexed position k of the samples sorted ascending
IsOrderStatistic(samples, k, v) ==
    /\ Cardinality({i \in DOMAIN samples : samples[i] < v}) <= k
    /\ k < Cardinality({i \in DOMAIN samples : samples[i] <= v})

RECURSIVE TrueSum(_)
TrueSum(s) == IF s = <<>> THEN 0 ELSE Head(s) + TrueSum(Tail(s))

C5_AverageOfTrueSum ==
    (rpc # "call" /\ Len(input) >= 1) =>
        /\ rpc = "returned"
        /\ result.average = TrueSum(input) \div Len(input)

SeqMin(s) == CHOOSE v \in {s[i] : i \in DOMAIN s} : \A i \in DOMAIN s : v <= s[i]
SeqMax(s) == CHOOSE v \in {s[i] : i \in DOMAIN s} : \A i \in DOMAIN s : v >= s[i]

\* C10: for count >= 2 the positions p - d, p and p + d lie within 0..count-1, from never
\* fails on an index, and min <= lower_median <= median <= higher_median <= max.
C10_IndicesInBounds ==
    (rpc # "call" /\ Len(input) >= 2) =>
        LET p == MedianPos(Len(input))
            d == MedianDif(p)
        IN  /\ 0 <= p - d /\ p - d <= p /\ p <= p + d /\ p + d <= Len(input) - 1
            /\ result.panic # "index"
            /\ rpc = "returned" =>
                  /\ SeqMin(input) <= result.lower_median
                  /\ result.lower_median <= result.median
                  /\ result.median <= result.higher_median
                  /\ result.higher_median <= SeqMax(input)

\* C10 witness: four samples, the three positions 1, 2 and 3 all read
C10_Witness ==
    /\ rpc = "returned"
    /\ Len(input) = 4
    /\ result.lower_median < result.median
    /\ result.median < result.higher_median
    /\ SeqMin(input) < result.lower_median

(***************************************************************************)
(* Properties of connections_info (checked under SpecConn)                 *)
(***************************************************************************)
\* the classification table of the connection states
StateClasses ==
    [listen |-> {"Listen"},
     established |-> {"Established"},
     closed |-> {"Closed"},
     starting |-> {"SynSent", "SynReceived"},
     closing |-> {"FinWait1", "FinWait2", "CloseWait", "Closing", "LastAck"},
     other |-> TcpStates \ {"Listen", "Established", "Closed", "SynSent", "SynReceived",
                            "FinWait1", "FinWait2", "CloseWait", "Closing", "LastAck"}]

\* the readable TCP sockets of the table that the process owns
OwnedSockets ==
    {i \in DOMAIN table.sockets :
        /\ table.sockets[i].readable
        /\ table.sockets[i].proto = "tcp"
        /\ cpid.some /\ cpid.val \in table.sockets[i].associated_pids}

\* C6: each owned TCP socket is counted in exactly the counter the table gives for its
\* state, so the six counters sum to the number of owned readable TCP sockets; the others
\* change no counter.
C6_ConnectionsPartition ==
    (cpc = "returned" /\ conns.some) =>
        /\ \A b \in DOMAIN StateClasses :
              conns.val[b] = Cardinality({i \in OwnedSockets :
                                             table.sockets[i].state \in StateClasses[b]})
        /\ conns.val.listen + conns.val.established + conns.val.starting
              + conns.val.closing + conns.val.closed + conns.val.other
           = Cardinality(OwnedSockets)

\* C6 witness: one owned socket in SYN_RECEIVED counted, one foreign socket skipped
C6_Witness ==
    /\ cpc = "returned" /\ conns.some
    /\ Len(table.sockets) = 2
    /\ table.sockets[1].associated_pids = {OtherPid}
    /\ table.sockets[2].state = "SynReceived"
    /\ conns.val.starting = 1
    /\ Cardinality(OwnedSockets) = 1

(***************************************************************************)
(* Properties of the service and its ticks (checked under Spec)            *)
(***************************************************************************)
\* the places <<drain, position>> at which the drains returned the entry id
ReturnedAt(id) ==
    {d \in (DOMAIN drains) \X (1..MaxAppends + 1) :
        d[2] \in DOMAIN drains[d[1]] /\ drains[d[1]][d[2]] = id}

\* C1: every appended entry is returned by exactly one drain, the first one after its
\* append; an entry appended after the last drain is returned by none and is in the buffer.
C1_DrainedExactlyOnce ==
    \A id \in DOMAIN appendLog :
        IF appendLog[id].epoch < Len(drains)
        THEN /\ Cardinality(ReturnedAt(id)) = 1
             /\ \A d \in ReturnedAt(id) : d[1] = appendLog[id].epoch + 1
             /\ \A i \in DOMAIN buffer : buffer[i].id # id
        ELSE /\ ReturnedAt(id) = {}
             /\ Cardinality({i \in DOMAIN buffer : buffer[i].id = id}) = 1
             /\ \A i \in DOMAIN buffer :
                   buffer[i].id = id =>
                      /\ buffer[i].key = appendLog[id].key
                      /\ buffer[i].value = appendLog[id].value

\* C1 witness: two ticks, the first entry returned by the first drain only, the second
\* entry, appended after that drain, returned by the second drain only
C1_Witness ==
    /\ Len(drains) = 2
    /\ Len(appendLog) = 2
    /\ ticks = 2
    /\ drains[1] = <<1>>
    /\ drains[2] = <<2>>
    /\ buffer = <<>>

\* C2: a sampler built with new() emits one telemetry event per tick and drains the buffer
\* in every tick, leaving it empty until the next append, and never creates or sets a gauge.
C2_SinklessTickDrains ==
    (svc = "built" /\ metrics = "None") =>
        /\ gauges = NoGauges
        /\ registry = {}
        /\ Len(telemetry) = ticks
        /\ pc \in {"idle", "panicked"} => Len(drains) = ticks
        /\ \A i \in DOMAIN buffer : appendLog[buffer[i].id].epoch = Len(drains)

\* the samples recorded under a key while e drains had happened, in arrival order
RECURSIVE IntervalValues(_, _, _)
IntervalValues(log, key, e) ==
    IF log = <<>> THEN <<>>
    ELSE IF Head(log).key = key /\ Head(log).epoch = e
         THEN <<Head(log).value>> \o IntervalValues(Tail(log), key, e)
         ELSE IntervalValues(Tail(log), key, e)

IntervalKeys(e) == {appendLog[i].key : i \in {j \in DOMAIN appendLog : appendLog[j].epoch = e}}

\* C3: the summary a tick publishes for a key is the summary of exactly the samples recorded
\* under that key since the previous drain, and a tick that completes publishes a summary
\* for every key recorded in its interval.
C3_SummaryOfOwnInterval ==
    \A n \in DOMAIN summaries :
        /\ \A k \in DOMAIN summaries[n] :
              /\ summaries[n][k].panic = "no"
              /\ summaries[n][k].count = Len(IntervalValues(appendLog, k, n - 1))
              /\ summaries[n][k] = From(IntervalValues(appendLog, k, n - 1), overflow_checks)
        /\ (metrics = "Some" /\ (n < Len(summaries) \/ pc = "idle")) =>
              DOMAIN summaries[n] = IntervalKeys(n - 1)

\* C3 witness: one event under the key before tick 1, another between tick 1 and tick 2
C3_Witness ==
    /\ pc = "idle" /\ ticks = 2 /\ Len(summaries) = 2
    /\ Len(appendLog) = 2
    /\ appendLog[1].key = "sync" /\ appendLog[2].key = "sync"
    /\ appendLog[1].epoch = 0 /\ appendLog[2].epoch = 1
    /\ appendLog[1].value # appendLog[2].value
    /\ "sync" \in DOMAIN summaries[1] /\ summaries[1]["sync"].median = appendLog[1].value
    /\ "sync" \in DOMAIN summaries[2] /\ summaries[2]["sync"].median = appendLog[2].value
    /\ summaries[1]["sync"].count = 1 /\ summaries[2]["sync"].count = 1

HasGauge(metric, label, value) ==
    /\ <<metric, label>> \in DOMAIN gauges
    /\ gauges[<<metric, label>>] = value

InternalsLabels == {g[2] : g \in {x \in DOMAIN gauges : x[1] = "internals"}}

\* C7: after a tick of a sink-bearing sampler, block_imports is written to the block_import
\* gauge under count, time_average, time_median, time_lower_median, time_higher_median, and
\* every other drained key K to the internals gauge under exactly K_count, K_average,
\* K_median, K_lower_median, K_higher_median, each with the field of the key's summary.
C7_SeriesLabels ==
    (metrics = "Some" /\ pc = "idle" /\ Len(summaries) >= 1) =>
        LET last == summaries[Len(summaries)] IN
        \A k \in DOMAIN last :
            IF k = "block_imports"
            THEN /\ HasGauge("block_import", "count", last[k].count)
                 /\ HasGauge("block_import", "time_average", last[k].average)
                 /\ HasGauge("block_import", "time_median", last[k].median)
                 /\ HasGauge("block_import", "time_lower_median", last[k].lower_median)
                 /\ HasGauge("block_import", "time_higher_median", last[k].higher_median)
                 /\ \A l \in InternalsLabels : l # "block_imports_count"
            ELSE /\ HasGauge("internals", k \o "_count", last[k].count)
                 /\ HasGauge("internals", k \o "_average", last[k].average)
                 /\ HasGauge("internals", k \o "_median", last[k].median)
                 /\ HasGauge("internals", k \o "_lower_median", last[k].lower_median)
                 /\ HasGauge("internals", k \o "_higher_median", last[k].higher_median)
                 /\ k \o "_lower_media" \notin InternalsLabels

\* C8: with_prometheus is all-or-nothing: on failure the registry holds none of the metrics
\* it did not hold before, on success it holds them all.
C8_AllOrNothing ==
    /\ svc = "failed" => registry = preregistered
    /\ (svc = "built" /\ metrics = "Some") => MetricNames \subseteq registry

\* C9: every tick runs to completion whatever queries fail: it emits its event and drains
\* the buffer; a failed refresh gives cpu_usage 0 and memory 0, a failed thread-count read
\* threads absent, a failed descriptor read open_fd absent (otherwise the full breakdown), a
\* failed socket enumeration or an unknown pid connection counts absent.
C9_TickSurvivesFailures ==
    (svc = "built" /\ ticks >= 1) =>
        /\ Len(telemetry) = ticks
        /\ pc \in {"idle", "panicked"} => Len(drains) = ticks
        /\ ~ os.refresh_process => (process_info.cpu_usage = 0 /\ process_info.memory = 0)
        /\ (unix /\ ~ os.stat) => ~ process_info.threads.some
        /\ (unix /\ ~ os.fd) => ~ process_info.open_fd.some
        /\ process_info.open_fd.some =>
              LET f == process_info.open_fd.val
              IN  f.paths + f.sockets + f.net + f.pipes + f.anon_inode + f.mem + f.other
                  = Len(OsProcess.fd)
        /\ (~ sockets_info.ok \/ ~ pid.some) => ~ tick_conns.some
        /\ telemetry # <<>> =>
              /\ telemetry[Len(telemetry)].cpu = process_info.cpu_usage
              /\ telemetry[Len(telemetry)].memory = process_info.memory

====
